---- MODULE Spec2Model ----
(***************************************************************************)
(* A model of the Zotero MCP controller (src/main.py): the process-wide    *)
(* credential store and cached client handle, the exposed tools and        *)
(* resources that go through get_zotero_client, the criteria-based         *)
(* retain/delete workflow and the batch deleter.                           *)
(*                                                                         *)
(* Python strings are sequences of one-character strings, so that strip()  *)
(* and lower() are computed rather than assumed.  A mapping (dict) is a    *)
(* function whose domain is the set of keys present.  The Python None and  *)
(* an optional value are the empty tuple; a present optional value v is    *)
(* <<v>>.  A client handle is the triple <<library_id, library_type,       *)
(* api_key>> it was constructed from, in the argument order of             *)
(* zotero.Zotero.                                                          *)
(***************************************************************************)
EXTENDS Integers, Sequences, FiniteSets, TLC

VARIABLES
    ZOTERO_LIBRARY_ID,    \* module global, src/main.py:9
    ZOTERO_API_KEY,       \* module global, src/main.py:10
    ZOTERO_LIBRARY_TYPE,  \* module global, src/main.py:11
    zot,                  \* module global: the cached client handle, src/main.py:17
    pc,                   \* "idle": no call in progress; "done": a call has returned
    op,                   \* name of the tool or resource that has just returned
    args,                 \* its arguments
    client,               \* what get_zotero_client returned to it (its local zot)
    calls,                \* the calls it made to the external library, in order
    result,               \* what it returned to the caller
    reconfigured,         \* an accepted configure_zotero has returned and
                          \* get_zotero_client has not run since
    cfg,                  \* statement-level configure_zotero call (RaceSpec)
    req,                  \* statement-level get_zotero_client call of an operation (RaceSpec)
    interleaved           \* some statement ran while the other call was in flight (RaceSpec)

globals == <<ZOTERO_LIBRARY_ID, ZOTERO_API_KEY, ZOTERO_LIBRARY_TYPE, zot>>
callvars == <<pc, op, args, client, calls, result, reconfigured>>
racevars == <<cfg, req, interleaved>>
vars == <<globals, callvars, racevars>>

\* -------------------------------------------------------------- bounds
MaxCredLen == 2     \* longest library_id / api_key passed to configure_zotero
MaxItems == 2       \* most items an exhaustive fetch returns
MaxBatch == 2       \* most keys passed to delete_items_batch

\* ------------------------------------------------------------- strings
None == <<>>
Some(v) == <<v>>

EmptyMap == [k \in {} |-> None]

\* dict.get(k, default)
Get(d, k, default) == IF k \in DOMAIN d THEN d[k] ELSE default

Min(a, b) == IF a < b THEN a ELSE b

RECURSIVE SeqsUpTo(_, _)
SeqsUpTo(S, n) ==
    IF n = 0 THEN {<<>>}
    ELSE LET shorter == SeqsUpTo(S, n - 1)
         IN  shorter \cup {Append(s, c) : s \in shorter, c \in S}

IsSpace(c) == c = " "

RECURSIVE LStrip(_)
LStrip(s) == IF s # <<>> /\ IsSpace(Head(s)) THEN LStrip(Tail(s)) ELSE s

RECURSIVE RStrip(_)
RStrip(s) ==
    IF s # <<>> /\ IsSpace(s[Len(s)]) THEN RStrip(SubSeq(s, 1, Len(s) - 1)) ELSE s

\* str.strip()
Strip(s) == RStrip(LStrip(s))

LowerChar(c) ==
    CASE c = "A" -> "a"
      [] c = "B" -> "b"
      [] OTHER -> c

\* str.lower()
Lower(s) == [i \in 1..Len(s) |-> LowerChar(s[i])]

\* the Python test  needle in hay  on strings
Contains(needle, hay) ==
    \E i \in 0..(Len(hay) - Len(needle)) :
        SubSeq(hay, i + 1, i + Len(needle)) = needle

User == <<"u", "s", "e", "r">>
Group == <<"g", "r", "o", "u", "p">>

\* ------------------------------------------------- the external library
\* One call to the external client library, as the handler saw it.
Call(fn, creds, key, raised) ==
    [fn |-> fn, creds |-> creds, key |-> key, raised |-> raised]

Handle(id, type, key) == <<id, type, key>>

Ctor(id, type, key, raised) == Call("Zotero", Handle(id, type, key), 0, raised)

\* What a handler returns to its caller.  Fault is an exception leaving the
\* handler instead of a result.
Fault == [kind |-> "FAULT"]
NotConfigured == [kind |-> "not_configured"]
Ok == [kind |-> "ok"]
Error == [kind |-> "error"]

\* ------------------------------------------------------ client gateway
\* The four module globals as one value.
Globals(id, type, key, z) == [id |-> id, type |-> type, key |-> key, zot |-> z]

\* get_zotero_client with "and" in place of "or" in its credential test.
get_zotero_client_and(g, ctor_raises) ==
    IF g.id = <<>> /\ g.key = <<>>
    THEN [ret |-> None, zot |-> g.zot, calls |-> <<>>, fault |-> FALSE]
    ELSE IF g.zot = None
    THEN IF ctor_raises
         THEN [ret |-> None, zot |-> g.zot,
               calls |-> <<Ctor(g.id, g.type, g.key, TRUE)>>, fault |-> FALSE]
         ELSE [ret |-> Handle(g.id, g.type, g.key),
               zot |-> Handle(g.id, g.type, g.key),
               calls |-> <<Ctor(g.id, g.type, g.key, FALSE)>>, fault |-> FALSE]
    ELSE [ret |-> g.zot, zot |-> g.zot, calls |-> <<>>, fault |-> FALSE]

\* get_zotero_client without the try block around the constructor.
get_zotero_client_unguarded(g, ctor_raises) ==
    IF g.id = <<>> \/ g.key = <<>>
    THEN [ret |-> None, zot |-> g.zot, calls |-> <<>>, fault |-> FALSE]
    ELSE IF g.zot = None
    THEN IF ctor_raises
         THEN [ret |-> None, zot |-> g.zot,
               calls |-> <<Ctor(g.id, g.type, g.key, TRUE)>>, fault |-> TRUE]
         ELSE [ret |-> Handle(g.id, g.type, g.key),
               zot |-> Handle(g.id, g.type, g.key),
               calls |-> <<Ctor(g.id, g.type, g.key, FALSE)>>, fault |-> FALSE]
    ELSE [ret |-> g.zot, zot |-> g.zot, calls |-> <<>>, fault |-> FALSE]

\* get_zotero_client(): ret is the value returned, zot the global afterwards,
\* calls the constructor call made (if any), fault an exception leaving it.
\* ctor_raises is the outcome of zotero.Zotero(...) should it be called.
get_zotero_client(g, ctor_raises) ==
    IF g.id = <<>> \/ g.key = <<>>
    THEN [ret |-> None, zot |-> g.zot, calls |-> <<>>, fault |-> FALSE]
    ELSE IF g.zot = None
    THEN IF ctor_raises
         THEN [ret |-> None, zot |-> g.zot,
               calls |-> <<Ctor(g.id, g.type, g.key, TRUE)>>, fault |-> FALSE]
         ELSE [ret |-> Handle(g.id, g.type, g.key),
               zot |-> Handle(g.id, g.type, g.key),
               calls |-> <<Ctor(g.id, g.type, g.key, FALSE)>>, fault |-> FALSE]
    ELSE [ret |-> g.zot, zot |-> g.zot, calls |-> <<>>, fault |-> FALSE]

\* The value a handler leaves behind: the globals, its local client, the
\* external calls it made and its result.
Out(g, c, cs, r) == [g |-> g, client |-> c, calls |-> cs, result |-> r]

\* The opening of every tool and resource that uses the client:
\*     zot = get_zotero_client(); if zot is None: return <not configured>
\* followed by its try block, whose calls and result are given.
WithClient(g, c, bodyCalls, bodyResult) ==
    LET g1 == Globals(g.id, g.type, g.key, c.zot)
    IN  IF c.fault THEN Out(g1, None, c.calls, Fault)
        ELSE IF c.ret = None THEN Out(g1, None, c.calls, NotConfigured)
        ELSE Out(g1, c.ret, c.calls \o bodyCalls, bodyResult)

\* ---------------------------------------------------- configure_zotero
ProbeOutcomes == {"ok", "ctor_raises", "top_raises"}

\* The reset of the cached client left out.
KeepClient(z) == z

\* zot = None  (src/main.py:49)
ResetClient(z) == None

\* configure_zotero storing its arguments before it validates them.
configure_zotero_storing_first(library_id, api_key, library_type, g, probe) ==
    LET g1 == Globals(Strip(library_id), Strip(library_type),
                      Strip(api_key), None)
        ctor == Ctor(g1.id, g1.type, g1.key, probe = "ctor_raises")
        top == Call("top", None, 0, probe = "top_raises")
    IN  IF library_id = <<>> \/ api_key = <<>>
        THEN Out(g1, None, <<>>, [kind |-> "validation_error", why |-> "empty"])
        ELSE IF library_type \notin {User, Group}
        THEN Out(g1, None, <<>>, [kind |-> "validation_error", why |-> "library_type"])
        ELSE IF probe = "ctor_raises"
        THEN Out(g1, None, <<ctor>>, [kind |-> "configuration_error"])
        ELSE IF probe = "top_raises"
        THEN Out(g1, None, <<ctor, top>>, [kind |-> "configuration_error"])
        ELSE Out(g1, None, <<ctor, top>>, [kind |-> "configured"])

\* probe: the outcome of the live probe (constructor, then top(limit=1)).
configure_zotero(library_id, api_key, library_type, g, probe) ==
    IF library_id = <<>> \/ api_key = <<>>
    THEN Out(g, None, <<>>, [kind |-> "validation_error", why |-> "empty"])
    ELSE IF library_type \notin {User, Group}
    THEN Out(g, None, <<>>, [kind |-> "validation_error", why |-> "library_type"])
    ELSE LET g1 == Globals(Strip(library_id), Strip(library_type),
                           Strip(api_key), ResetClient(g.zot))
             ctor == Ctor(g1.id, g1.type, g1.key, probe = "ctor_raises")
             top == Call("top", None, 0, probe = "top_raises")
         IN  IF probe = "ctor_raises"
             THEN Out(g1, None, <<ctor>>, [kind |-> "configuration_error"])
             ELSE IF probe = "top_raises"
             THEN Out(g1, None, <<ctor, top>>, [kind |-> "configuration_error"])
             ELSE Out(g1, None, <<ctor, top>>, [kind |-> "configured"])

\* ------------------------------------------------- single-call handlers
\* list_items(limit): one top(limit=limit) inside the try block.
list_items(g, ctor_raises, raises) ==
    WithClient(g, get_zotero_client(g, ctor_raises),
               <<Call("top", None, 0, raises)>>,
               IF raises THEN Error ELSE Ok)

\* delete_item(item_key): one delete_item(item_key) inside the try block.
delete_item(item_key, g, ctor_raises, raises) ==
    WithClient(g, get_zotero_client(g, ctor_raises),
               <<Call("delete_item", None, item_key, raises)>>,
               IF raises THEN Error ELSE Ok)

\* get_item_details(item_key): one item(item_key) inside the try block.
get_item_details(item_key, g, ctor_raises, raises) ==
    WithClient(g, get_zotero_client(g, ctor_raises),
               <<Call("item", None, item_key, raises)>>,
               IF raises THEN Error ELSE Ok)

\* get_library_stats(): one top() inside the try block; a JSON error field
\* on failure.
get_library_stats(g, ctor_raises, raises) ==
    WithClient(g, get_zotero_client(g, ctor_raises),
               <<Call("top", None, 0, raises)>>,
               IF raises THEN Error ELSE Ok)

\* get_recent_items(): one top(limit=10) inside the try block.
get_recent_items(g, ctor_raises, raises) ==
    WithClient(g, get_zotero_client(g, ctor_raises),
               <<Call("top", None, 0, raises)>>,
               IF raises THEN Error ELSE Ok)

\* zot.everything(zot.top()): the argument is evaluated first; a raising
\* top() means everything() is never called.
FetchOutcomes == {"ok", "top_raises", "everything_raises"}

ExhaustiveFetch(fetch) ==
    IF fetch = "top_raises" THEN <<Call("top", None, 0, TRUE)>>
    ELSE <<Call("top", None, 0, FALSE),
           Call("everything", None, 0, fetch = "everything_raises")>>

\* search_items(query, item_type): the exhaustive fetch inside the try block.
search_items(g, ctor_raises, fetch) ==
    WithClient(g, get_zotero_client(g, ctor_raises),
               ExhaustiveFetch(fetch),
               IF fetch = "ok" THEN Ok ELSE Error)

\* check_zotero_config(): no client, no external call; the API key is shown
\* with everything after its first MaskPrefix characters replaced by "*".
MaskPrefix == 8

MaskKey(key) ==
    IF Len(key) > MaskPrefix
    THEN SubSeq(key, 1, MaskPrefix) \o [i \in 1..(Len(key) - MaskPrefix) |-> "*"]
    ELSE [i \in 1..Len(key) |-> "*"]

check_zotero_config(g) ==
    IF g.id = <<>> \/ g.key = <<>>
    THEN Out(g, None, <<>>, [kind |-> "unconfigured_report"])
    ELSE Out(g, None, <<>>, [kind |-> "configured_report", masked |-> MaskKey(g.key)])

\* --------------------------------------------------- delete_items_batch
\* The loop of delete_items_batch over the keys still to process: every key
\* gets one delete_item call inside its own try block.  fails[i] tells whether
\* the call for the i-th remaining key raises.
\* The batch loop leaving at the first delete_item that raises.
RECURSIVE BatchLoopStoppingAtFailure(_, _, _)
BatchLoopStoppingAtFailure(keys, fails, acc) ==
    IF keys = <<>> THEN acc
    ELSE IF Head(fails)
    THEN [calls |-> Append(acc.calls, Call("delete_item", None, Head(keys), TRUE)),
          success_count |-> acc.success_count,
          errors |-> Append(acc.errors, Head(keys))]
    ELSE BatchLoopStoppingAtFailure(Tail(keys), Tail(fails),
            [calls |-> Append(acc.calls, Call("delete_item", None, Head(keys), FALSE)),
             success_count |-> acc.success_count + 1,
             errors |-> acc.errors])

RECURSIVE BatchLoop(_, _, _)
BatchLoop(keys, fails, acc) ==
    IF keys = <<>> THEN acc
    ELSE BatchLoop(Tail(keys), Tail(fails),
            [calls |-> Append(acc.calls,
                              Call("delete_item", None, Head(keys), Head(fails))),
             success_count |-> IF Head(fails) THEN acc.success_count
                               ELSE acc.success_count + 1,
             errors |-> IF Head(fails) THEN Append(acc.errors, Head(keys))
                        ELSE acc.errors])

delete_items_batch(item_keys, g, ctor_raises, fails) ==
    LET done == BatchLoop(item_keys, fails,
                          [calls |-> <<>>, success_count |-> 0, errors |-> <<>>])
    IN  WithClient(g, get_zotero_client(g, ctor_raises),
                   done.calls,
                   [kind |-> "ok", success_count |-> done.success_count,
                    errors |-> done.errors])

\* --------------------------------------------- retain_items_by_criteria
\* The retention test comparing titles without lowering them.
should_retain_case_sensitive(data, criteria) ==
    /\ "item_type" \in DOMAIN criteria =>
           (IF "itemType" \in DOMAIN data THEN Some(data["itemType"]) ELSE None)
               = Some(criteria["item_type"])
    /\ "title_contains" \in DOMAIN criteria =>
           Contains(criteria["title_contains"], Get(data, "title", <<>>))

\* The retention test of one item (the body of the partition loop).
\* data.get("itemType") of an item without the field is Python's None, which
\* equals no string: both sides are compared as optional values.
should_retain(data, criteria) ==
    /\ "item_type" \in DOMAIN criteria =>
           (IF "itemType" \in DOMAIN data THEN Some(data["itemType"]) ELSE None)
               = Some(criteria["item_type"])
    /\ "title_contains" \in DOMAIN criteria =>
           Contains(Lower(criteria["title_contains"]),
                    Lower(Get(data, "title", <<>>)))

\* The partition loop: items are appended to one of the two lists in the
\* order they are met.
\* The partition loop putting each item to delete in front of the earlier ones.
RECURSIVE PartitionLoopPrepending(_, _, _, _)
PartitionLoopPrepending(items, criteria, items_to_retain, items_to_delete) ==
    IF items = <<>>
    THEN [retain |-> items_to_retain, delete |-> items_to_delete]
    ELSE IF should_retain(Head(items).data, criteria)
    THEN PartitionLoopPrepending(Tail(items), criteria,
                                 Append(items_to_retain, Head(items)), items_to_delete)
    ELSE PartitionLoopPrepending(Tail(items), criteria,
                                 items_to_retain, <<Head(items)>> \o items_to_delete)

RECURSIVE PartitionLoop(_, _, _, _)
PartitionLoop(items, criteria, items_to_retain, items_to_delete) ==
    IF items = <<>>
    THEN [retain |-> items_to_retain, delete |-> items_to_delete]
    ELSE IF should_retain(Head(items).data, criteria)
    THEN PartitionLoop(Tail(items), criteria,
                       Append(items_to_retain, Head(items)), items_to_delete)
    ELSE PartitionLoop(Tail(items), criteria,
                       items_to_retain, Append(items_to_delete, Head(items)))

partition(all_items, criteria) == PartitionLoop(all_items, criteria, <<>>, <<>>)

\* The deleting loop of the dry_run = False branch: one delete_item per item
\* of items_to_delete, each inside its own try block.  failing is the set of
\* keys whose delete raises.
RECURSIVE DeleteLoop(_, _, _)
DeleteLoop(items, failing, acc) ==
    IF items = <<>> THEN acc
    ELSE LET key == Head(items).key
             raised == key \in failing
         IN  DeleteLoop(Tail(items), failing,
                [calls |-> Append(acc.calls, Call("delete_item", None, key, raised)),
                 deleted_count |-> IF raised THEN acc.deleted_count
                                   ELSE acc.deleted_count + 1,
                 failed |-> IF raised THEN Append(acc.failed, key) ELSE acc.failed])

PreviewLimit == 10

KeysOf(items) == [i \in 1..Len(items) |-> items[i].key]

\* The deletions run whatever dry_run says.
DeletePhaseIgnoringDryRun(dry_run, items_to_delete, failing) ==
    LET done == DeleteLoop(items_to_delete, failing,
                    [calls |-> <<>>, deleted_count |-> 0, failed |-> <<>>])
    IN  [calls |-> done.calls, preview |-> <<>>, remainder |-> 0,
         deleted_count |-> done.deleted_count, failed |-> done.failed]

\* What follows the partition: the preview, or the deletions.
DeletePhase(dry_run, items_to_delete, failing) ==
    IF dry_run
    THEN [calls |-> <<>>,
          preview |-> KeysOf(SubSeq(items_to_delete, 1,
                                    Min(PreviewLimit, Len(items_to_delete)))),
          remainder |-> IF Len(items_to_delete) > PreviewLimit
                        THEN Len(items_to_delete) - PreviewLimit ELSE 0,
          deleted_count |-> 0, failed |-> <<>>]
    ELSE LET done == DeleteLoop(items_to_delete, failing,
                        [calls |-> <<>>, deleted_count |-> 0, failed |-> <<>>])
         IN  [calls |-> done.calls, preview |-> <<>>, remainder |-> 0,
              deleted_count |-> done.deleted_count, failed |-> done.failed]

\* fetch is the outcome of zot.everything(zot.top()), all_items what it
\* returns when it does return.
retain_items_by_criteria(criteria, dry_run, g, ctor_raises, fetch, all_items, failing) ==
    LET p == partition(all_items, criteria)
        d == DeletePhase(dry_run, p.delete, failing)
    IN  WithClient(g, get_zotero_client(g, ctor_raises),
                   IF fetch = "ok" THEN ExhaustiveFetch(fetch) \o d.calls
                   ELSE ExhaustiveFetch(fetch),
                   IF fetch = "ok"
                   THEN [kind |-> "ok",
                         all_items |-> all_items,
                         items_to_retain |-> p.retain,
                         items_to_delete |-> p.delete,
                         preview |-> d.preview, remainder |-> d.remainder,
                         deleted_count |-> d.deleted_count, failed |-> d.failed]
                   ELSE Error)

\* --------------------------------------------------------------- inputs
CredChars == {" ", "a"}
CredStrings == SeqsUpTo(CredChars, MaxCredLen)
TypeInputs == {User, Group, <<" ">> \o User, <<>>}
EnvStrings == {<<>>, <<"a">>}

ItemKeys == 1..MaxItems
BatchInputs == SeqsUpTo(ItemKeys, MaxBatch)

Book == <<"b", "o", "o", "k">>
Note == <<"n", "o", "t", "e">>

\* A mapping with the key k when the optional value is present.
Entry(k, opt) == IF opt = None THEN EmptyMap ELSE (k :> opt[1])

\* The data mapping of an item, with or without itemType and title.
Data(typeOpt, titleOpt) == Entry("itemType", typeOpt) @@ Entry("title", titleOpt)

\* A criteria mapping, with or without each recognized key and with or
\* without a key the code does not know.
Criteria(typeOpt, needleOpt, otherOpt) ==
    Entry("item_type", typeOpt) @@ Entry("title_contains", needleOpt)
        @@ Entry("collection", otherOpt)

\* The items of a fetch: the library gives every item a key of its own; the
\* keys come in ascending or descending order of the fetch.
Items(ds, rev) ==
    [i \in 1..Len(ds) |->
        [key |-> IF rev THEN Len(ds) + 1 - i ELSE i, data |-> ds[i]]]

ItemSeqs(shapes) ==
    {Items(ds, rev) : ds \in SeqsUpTo(shapes, MaxItems), rev \in BOOLEAN}

\* The inputs of the partition on its own.
TypeOpts == {None, Some(Book), Some(Note)}
TitleOpts ==
    {None, Some(<<>>), Some(<<"a">>), Some(<<"B">>), Some(<<"A", "b">>),
     Some(<<"b", "A">>), Some(<<"a", "B", "b">>)}
CritTypeOpts == {None, Some(Book), Some(<<>>)}
NeedleOpts ==
    {None, Some(<<>>), Some(<<"A">>), Some(<<"b">>), Some(<<"a", "B">>),
     Some(<<"b", "b">>)}
OtherOpts == {None, Some(<<"c">>)}
AllShapes == {Data(t, n) : t \in TypeOpts, n \in TitleOpts}
AllCriteria == {Criteria(t, n, o) : t \in CritTypeOpts, n \in NeedleOpts, o \in OtherOpts}

\* The inputs of retain_items_by_criteria as a tool.
RetainShapes ==
    {Data(Some(Book), Some(<<"A", "b">>)), Data(Some(Note), None),
     Data(None, Some(<<"b">>))}
RetainCriteria ==
    {Criteria(None, None, None), Criteria(Some(Book), None, None),
     Criteria(None, Some(<<"B">>), None),
     Criteria(Some(Note), Some(<<>>), Some(<<"c">>))}

\* ---------------------------------------------------------------- state
NoResult == [kind |-> "none"]
IdleCall == [pc |-> "idle", library_id |-> <<>>, api_key |-> <<>>, library_type |-> <<>>]
IdleReq == [pc |-> "idle", ret |-> None]

\* The process starts with the credentials of its environment, no client
\* and no call in progress.
Init ==
    /\ ZOTERO_LIBRARY_ID \in EnvStrings
    /\ ZOTERO_API_KEY \in EnvStrings
    /\ ZOTERO_LIBRARY_TYPE \in {User, Group}
    /\ zot = None
    /\ pc = "idle"
    /\ op = "none"
    /\ args = <<>>
    /\ client = None
    /\ calls = <<>>
    /\ result = NoResult
    /\ reconfigured = FALSE
    /\ cfg = IdleCall
    /\ req = IdleReq
    /\ interleaved = FALSE

G == Globals(ZOTERO_LIBRARY_ID, ZOTERO_LIBRARY_TYPE, ZOTERO_API_KEY, zot)

Accepted(r) == r.kind \in {"configured", "configuration_error"}

\* A whole call of a tool or resource: from no call in progress to its result.
Returns(name, a, out) ==
    /\ pc = "idle"
    /\ pc' = "done"
    /\ op' = name
    /\ args' = a
    /\ ZOTERO_LIBRARY_ID' = out.g.id
    /\ ZOTERO_LIBRARY_TYPE' = out.g.type
    /\ ZOTERO_API_KEY' = out.g.key
    /\ zot' = out.g.zot
    /\ client' = out.client
    /\ calls' = out.calls
    /\ result' = out.result
    /\ UNCHANGED racevars

ClientOps ==
    {"list_items", "delete_item", "delete_items_batch", "search_items",
     "get_item_details", "retain_items_by_criteria", "get_library_stats",
     "get_recent_items"}

ConfigureZotero ==
    /\ pc = "idle"
    /\ \E library_id \in CredStrings, api_key \in CredStrings,
          library_type \in TypeInputs, probe \in ProbeOutcomes :
           LET out == configure_zotero(library_id, api_key, library_type, G, probe)
           IN  /\ Returns("configure_zotero",
                          [library_id |-> library_id, api_key |-> api_key,
                           library_type |-> library_type], out)
               /\ reconfigured' = IF Accepted(out.result) THEN TRUE ELSE reconfigured

ListItems ==
    /\ pc = "idle"
    /\ \E ctor_raises \in BOOLEAN, raises \in BOOLEAN :
           /\ Returns("list_items", <<>>, list_items(G, ctor_raises, raises))
           /\ reconfigured' = FALSE

DeleteItem ==
    /\ pc = "idle"
    /\ \E item_key \in ItemKeys, ctor_raises \in BOOLEAN, raises \in BOOLEAN :
           /\ Returns("delete_item", [item_key |-> item_key],
                      delete_item(item_key, G, ctor_raises, raises))
           /\ reconfigured' = FALSE

DeleteItemsBatch ==
    /\ pc = "idle"
    /\ \E item_keys \in BatchInputs, ctor_raises \in BOOLEAN :
           \E fails \in [1..Len(item_keys) -> BOOLEAN] :
               /\ Returns("delete_items_batch", [item_keys |-> item_keys],
                          delete_items_batch(item_keys, G, ctor_raises, fails))
               /\ reconfigured' = FALSE

SearchItems ==
    /\ pc = "idle"
    /\ \E ctor_raises \in BOOLEAN, fetch \in FetchOutcomes :
           /\ Returns("search_items", <<>>, search_items(G, ctor_raises, fetch))
           /\ reconfigured' = FALSE

GetItemDetails ==
    /\ pc = "idle"
    /\ \E item_key \in ItemKeys, ctor_raises \in BOOLEAN, raises \in BOOLEAN :
           /\ Returns("get_item_details", [item_key |-> item_key],
                      get_item_details(item_key, G, ctor_raises, raises))
           /\ reconfigured' = FALSE

\* What the exhaustive fetch can return: nothing is returned when it raises.
FetchedItems(fetch) == IF fetch = "ok" THEN ItemSeqs(RetainShapes) ELSE {<<>>}

\* The keys whose delete may raise: no delete is at stake in a dry run.
FailingSets(all_items, dry_run) ==
    IF dry_run THEN {{}} ELSE SUBSET {all_items[i].key : i \in 1..Len(all_items)}

RetainItemsByCriteria ==
    /\ pc = "idle"
    /\ \E criteria \in RetainCriteria, dry_run \in BOOLEAN, ctor_raises \in BOOLEAN,
          fetch \in FetchOutcomes :
           \E all_items \in FetchedItems(fetch) :
               \E failing \in FailingSets(all_items, dry_run) :
                   /\ Returns("retain_items_by_criteria",
                              [criteria |-> criteria, dry_run |-> dry_run],
                              retain_items_by_criteria(criteria, dry_run, G, ctor_raises,
                                                       fetch, all_items, failing))
                   /\ reconfigured' = FALSE

GetLibraryStats ==
    /\ pc = "idle"
    /\ \E ctor_raises \in BOOLEAN, raises \in BOOLEAN :
           /\ Returns("get_library_stats", <<>>, get_library_stats(G, ctor_raises, raises))
           /\ reconfigured' = FALSE

GetRecentItems ==
    /\ pc = "idle"
    /\ \E ctor_raises \in BOOLEAN, raises \in BOOLEAN :
           /\ Returns("get_recent_items", <<>>, get_recent_items(G, ctor_raises, raises))
           /\ reconfigured' = FALSE

CheckZoteroConfig ==
    /\ Returns("check_zotero_config", <<>>, check_zotero_config(G))
    /\ UNCHANGED reconfigured

\* The server hands the result to the caller and waits for the next request.
Respond ==
    /\ pc = "done"
    /\ pc' = "idle"
    /\ op' = "none"
    /\ args' = <<>>
    /\ client' = None
    /\ calls' = <<>>
    /\ result' = NoResult
    /\ UNCHANGED <<globals, reconfigured, racevars>>

Next ==
    \/ ConfigureZotero
    \/ ListItems
    \/ DeleteItem
    \/ DeleteItemsBatch
    \/ SearchItems
    \/ GetItemDetails
    \/ RetainItemsByCriteria
    \/ GetLibraryStats
    \/ GetRecentItems
    \/ CheckZoteroConfig
    \/ Respond

Spec == Init /\ [][Next]_vars

\* ------------------------------------------- the partition on its own
\* The retention filter as a pure function: the fetched items and the
\* criteria are drawn at the start and the partition is applied to them.
PartitionInit ==
    /\ ZOTERO_LIBRARY_ID = <<"a">>
    /\ ZOTERO_API_KEY = <<"a">>
    /\ ZOTERO_LIBRARY_TYPE = User
    /\ zot = None
    /\ pc = "idle"
    /\ op = "partition"
    /\ args \in {[all_items |-> I, criteria |-> C] :
                    I \in ItemSeqs(AllShapes), C \in AllCriteria}
    /\ client = None
    /\ calls = <<>>
    /\ result = NoResult
    /\ reconfigured = FALSE
    /\ cfg = IdleCall
    /\ req = IdleReq
    /\ interleaved = FALSE

ApplyPartition ==
    /\ pc = "idle"
    /\ op = "partition"
    /\ pc' = "done"
    /\ result' = LET p == partition(args.all_items, args.criteria)
                 IN  [kind |-> "ok", items_to_retain |-> p.retain,
                      items_to_delete |-> p.delete]
    /\ UNCHANGED <<globals, op, args, client, calls, reconfigured, racevars>>

PartitionNext == ApplyPartition

PartitionSpec == PartitionInit /\ [][PartitionNext]_vars

\* ------------------------------------------------- vocabulary of claims
DeleteCalls == SelectSeq(calls, LAMBDA c : c.fn = "delete_item")
DeleteKeysCalled == [i \in 1..Len(DeleteCalls) |-> DeleteCalls[i].key]
ConstructorCalls == SelectSeq(calls, LAMBDA c : c.fn = "Zotero")

\* The retention rule in the words of the specification: the item type, when
\* asked for, is present and equal; the needle, when asked for, occurs in the
\* title at some offset, letter case aside, a missing title being empty.
TitleOf(data) == IF "title" \in DOMAIN data THEN data["title"] ELSE <<>>

OccursIgnoringCase(needle, title) ==
    \E off \in 0..Len(title) :
        /\ off + Len(needle) <= Len(title)
        /\ \A j \in 1..Len(needle) :
               LowerChar(needle[j]) = LowerChar(title[off + j])

Satisfies(data, criteria) ==
    /\ "item_type" \in DOMAIN criteria =>
           /\ "itemType" \in DOMAIN data
           /\ data["itemType"] = criteria["item_type"]
    /\ "title_contains" \in DOMAIN criteria =>
           OccursIgnoringCase(criteria["title_contains"], TitleOf(data))

KeySet(items) == {items[i].key : i \in 1..Len(items)}
PositionOf(items, key) == CHOOSE i \in 1..Len(items) : items[i].key = key
CountOf(items, key) == Cardinality({i \in 1..Len(items) : items[i].key = key})

\* seq keeps the relative order its items have in of.
KeepsOrderOf(seq, of) ==
    \A j, k \in 1..Len(seq) :
        j < k => PositionOf(of, seq[j].key) < PositionOf(of, seq[k].key)

\* The items of all_items that are to go, in fetch order.
DeleteSetOf(all_items, criteria) ==
    SelectSeq(all_items, LAMBDA it : ~Satisfies(it.data, criteria))
RetainSetOf(all_items, criteria) ==
    SelectSeq(all_items, LAMBDA it : Satisfies(it.data, criteria))

RetainFetched ==
    pc = "done" /\ op = "retain_items_by_criteria" /\ result.kind = "ok"

\* C1: retain_items_by_criteria with dry_run = true makes no delete_item call
\* at all; with dry_run = false it calls delete_item exactly once per item of
\* the delete set, in fetch order, and for no item of the retain set.
C1_DryRunGatesDeletes ==
    (pc = "done" /\ op = "retain_items_by_criteria") =>
        /\ args.dry_run => DeleteCalls = <<>>
        /\ (~args.dry_run /\ result.kind = "ok") =>
               /\ DeleteKeysCalled
                      = KeysOf(DeleteSetOf(result.all_items, args.criteria))
               /\ \A i \in 1..Len(DeleteKeysCalled) :
                      DeleteKeysCalled[i]
                          \notin KeySet(RetainSetOf(result.all_items, args.criteria))

C1_Witness ==
    /\ RetainFetched
    /\ ~args.dry_run
    /\ Len(DeleteCalls) = MaxItems
    /\ DeleteCalls[1].raised
    /\ DeleteCalls[1].key > DeleteCalls[Len(DeleteCalls)].key

C1_DryRunWitness ==
    /\ RetainFetched
    /\ args.dry_run
    /\ Len(result.items_to_delete) = MaxItems

PartitionDone == pc = "done" /\ op = "partition"

\* C2: the partition puts every fetched item in exactly one of the retain and
\* the delete sequence, and each sequence keeps the order of the fetch.
C2_PartitionTotalOrdered ==
    PartitionDone =>
        LET I == args.all_items
            R == result.items_to_retain
            D == result.items_to_delete
        IN  /\ \A i \in 1..Len(I) :
                   CountOf(R, I[i].key) + CountOf(D, I[i].key) = 1
            /\ Len(R) + Len(D) = Len(I)
            /\ \A j \in 1..Len(R) : R[j] = I[PositionOf(I, R[j].key)]
            /\ \A j \in 1..Len(D) : D[j] = I[PositionOf(I, D[j].key)]
            /\ KeepsOrderOf(R, I)
            /\ KeepsOrderOf(D, I)

C2_Witness ==
    /\ PartitionDone
    /\ Len(args.all_items) = MaxItems
    /\ args.all_items[1].key > args.all_items[2].key
    /\ Len(result.items_to_retain) >= 1
    /\ Len(result.items_to_delete) >= 1
    /\ result.items_to_delete[1] = args.all_items[1]

C2_OrderWitness ==
    /\ PartitionDone
    /\ Len(result.items_to_delete) = MaxItems
    /\ DOMAIN args.criteria # {}

RecognizedKeys == {"item_type", "title_contains"}

\* C3: an item is retained exactly when it satisfies every recognized
\* criterion present; absent and unrecognized keys constrain nothing, so
\* criteria without a recognized key retain every item and delete none.
C3_RetainedIffSatisfies ==
    PartitionDone =>
        LET I == args.all_items
            R == result.items_to_retain
            D == result.items_to_delete
        IN  /\ \A i \in 1..Len(I) :
                   (I[i].key \in KeySet(R)) <=> Satisfies(I[i].data, args.criteria)
            /\ \A i \in 1..Len(I) :
                   (I[i].key \in KeySet(D)) <=> ~Satisfies(I[i].data, args.criteria)
            /\ (DOMAIN args.criteria \cap RecognizedKeys = {}) =>
                   (R = I /\ D = <<>>)

C3_Witness ==
    /\ PartitionDone
    /\ DOMAIN args.criteria = {"item_type", "title_contains", "collection"}
    /\ args.criteria["title_contains"] = <<"a", "B">>
    /\ Len(result.items_to_retain) >= 1
    /\ result.items_to_retain[1].data["title"] = <<"A", "b">>
    /\ Len(result.items_to_delete) >= 1

C3_EmptyCriteriaWitness ==
    /\ PartitionDone
    /\ DOMAIN args.criteria = {"collection"}
    /\ Len(result.items_to_retain) = MaxItems

BatchRan == pc = "done" /\ op = "delete_items_batch" /\ client # None

RaisedKeys == LET r == SelectSeq(DeleteCalls, LAMBDA c : c.raised)
              IN  [i \in 1..Len(r) |-> r[i].key]

\* C4: delete_items_batch attempts one delete_item per input key, in input
\* order, whatever failed before; the success count is the number of calls
\* that did not raise, the failure list holds the keys whose call raised, in
\* input order, and the two add up to the number of input keys.
C4_BatchIsolatesFailures ==
    BatchRan =>
        /\ DeleteKeysCalled = args.item_keys
        /\ result.kind = "ok"
        /\ result.success_count
               = Cardinality({i \in 1..Len(DeleteCalls) : ~DeleteCalls[i].raised})
        /\ result.errors = RaisedKeys
        /\ result.success_count + Len(result.errors) = Len(args.item_keys)

C4_Witness ==
    /\ BatchRan
    /\ Len(args.item_keys) = MaxBatch
    /\ DeleteCalls[1].raised
    /\ ~DeleteCalls[Len(DeleteCalls)].raised
    /\ result.success_count >= 1

\* The arguments configure_zotero refuses.
Rejected(a) ==
    \/ a.library_id = <<>>
    \/ a.api_key = <<>>
    \/ a.library_type \notin {User, Group}

ConfigureReturned == pc = "done" /\ op = "configure_zotero"

\* C5: a configure_zotero call rejected by validation leaves the stored
\* library id, API key, library type and the cached client handle as they
\* were, and makes no call to the external client.
C5_RejectedConfigureChangesNothing ==
    [][(pc' = "done" /\ op' = "configure_zotero" /\ Rejected(args'))
           => (UNCHANGED globals /\ calls' = <<>>)]_vars

C5_Witness ==
    /\ ConfigureReturned
    /\ args.library_type \notin {User, Group}
    /\ args.library_id # <<>>
    /\ args.api_key # <<>>
    /\ Strip(args.library_id) # ZOTERO_LIBRARY_ID
    /\ ZOTERO_LIBRARY_ID # <<>>
    /\ ZOTERO_API_KEY # <<>>
    /\ zot # None

\* C6: an accepted configure_zotero call stores its (trimmed) arguments and
\* clears the cached handle, whether the probe succeeds or fails, and the
\* next get_zotero_client call constructs a client from the new credentials
\* instead of returning an older handle.
C6_NextClientBuiltFromNewCredentials ==
    [][/\ (pc' = "done" /\ op' = "configure_zotero" /\ ~Rejected(args')) =>
              /\ ZOTERO_LIBRARY_ID' = Strip(args'.library_id)
              /\ ZOTERO_API_KEY' = Strip(args'.api_key)
              /\ ZOTERO_LIBRARY_TYPE' = Strip(args'.library_type)
              /\ zot' = None
              /\ reconfigured'
       /\ (pc = "idle" /\ reconfigured /\ pc' = "done" /\ op' \in ClientOps) =>
              /\ calls' # <<>>
              /\ calls'[1].fn = "Zotero"
              /\ calls'[1].creds
                     = Handle(ZOTERO_LIBRARY_ID, ZOTERO_LIBRARY_TYPE, ZOTERO_API_KEY)
              /\ client' \in {None, calls'[1].creds}]_vars

\* C7: whenever a client is constructed, by get_zotero_client or by the probe
\* of configure_zotero, the stored library id and API key are both non-empty.
C7_CredentialsNonEmptyWhenClientBuilt ==
    (pc = "done" /\ ConstructorCalls # <<>>) =>
        /\ ZOTERO_LIBRARY_ID # <<>>
        /\ ZOTERO_API_KEY # <<>>

\* C8: while the stored library id or API key is empty, get_zotero_client
\* returns the absent signal and every tool and resource that needs the
\* client returns its not-configured result without any external call.
C8_UnconfiguredShortCircuits ==
    (pc = "done" /\ op \in ClientOps
         /\ (ZOTERO_LIBRARY_ID = <<>> \/ ZOTERO_API_KEY = <<>>)) =>
        /\ client = None
        /\ result = NotConfigured
        /\ calls = <<>>

C8_Witness ==
    /\ pc = "done"
    /\ op = "retain_items_by_criteria"
    /\ ~args.dry_run
    /\ ZOTERO_LIBRARY_ID # <<>>
    /\ ZOTERO_API_KEY = <<>>
    /\ result = NotConfigured

\* C9: every tool and resource ends with a result, never with a fault,
\* whichever external call raises; a raising fetch in
\* retain_items_by_criteria gives an error result and no delete is attempted.
C9_EveryCallReturnsAResult ==
    pc = "done" =>
        /\ result.kind \notin {"FAULT", "none"}
        /\ (op = "retain_items_by_criteria"
                /\ \E i \in 1..Len(calls) :
                       calls[i].fn \in {"top", "everything"} /\ calls[i].raised) =>
               (result = Error /\ DeleteCalls = <<>>)

C9_Witness ==
    /\ pc = "done"
    /\ op = "retain_items_by_criteria"
    /\ ~args.dry_run
    /\ Len(calls) = 3
    /\ calls[1].fn = "Zotero"
    /\ calls[3].fn = "everything"
    /\ calls[3].raised
    /\ result = Error

C9_ConstructorWitness ==
    /\ pc = "done"
    /\ op \in ClientOps
    /\ Len(calls) = 1
    /\ calls[1].fn = "Zotero"
    /\ calls[1].raised
    /\ result = NotConfigured

\* ------------------------------------------- statement-level interleaving
\* configure_zotero and the get_zotero_client call of one other operation,
\* each advancing one source statement at a time.  cfg.pc and req.pc name the
\* source line about to run; "use" is the operation holding the value
\* get_zotero_client returned.  Nothing orders the two calls: the globals are
\* read and written without any lock.
RaceStrings == {<<>>, <<"a">>, <<"a", "a">>}
RaceTypes == {User, Group, <<>>}

CfgAt(line) == [cfg EXCEPT !.pc = line]
ReqAt(line) == [req EXCEPT !.pc = line]

CfgStep == interleaved' = (interleaved \/ req.pc # "idle")
ReqStep == interleaved' = (interleaved \/ cfg.pc # "idle")

CfgCall ==
    \E library_id \in RaceStrings, api_key \in RaceStrings, library_type \in RaceTypes :
        /\ cfg.pc = "idle"
        /\ cfg' = [pc |-> "l37", library_id |-> library_id, api_key |-> api_key,
                   library_type |-> library_type]
        /\ CfgStep
        /\ UNCHANGED <<globals, callvars, req>>

\* if not library_id or not api_key: return
CfgCheckEmpty ==
    /\ cfg.pc = "l37"
    /\ cfg' = IF cfg.library_id = <<>> \/ cfg.api_key = <<>> THEN IdleCall ELSE CfgAt("l40")
    /\ CfgStep
    /\ UNCHANGED <<globals, callvars, req>>

\* if library_type not in ["user", "group"]: return
CfgCheckType ==
    /\ cfg.pc = "l40"
    /\ cfg' = IF cfg.library_type \notin {User, Group} THEN IdleCall ELSE CfgAt("l44")
    /\ CfgStep
    /\ UNCHANGED <<globals, callvars, req>>

CfgStoreId ==
    /\ cfg.pc = "l44"
    /\ ZOTERO_LIBRARY_ID' = Strip(cfg.library_id)
    /\ cfg' = CfgAt("l45")
    /\ CfgStep
    /\ UNCHANGED <<ZOTERO_API_KEY, ZOTERO_LIBRARY_TYPE, zot, callvars, req>>

CfgStoreKey ==
    /\ cfg.pc = "l45"
    /\ ZOTERO_API_KEY' = Strip(cfg.api_key)
    /\ cfg' = CfgAt("l46")
    /\ CfgStep
    /\ UNCHANGED <<ZOTERO_LIBRARY_ID, ZOTERO_LIBRARY_TYPE, zot, callvars, req>>

CfgStoreType ==
    /\ cfg.pc = "l46"
    /\ ZOTERO_LIBRARY_TYPE' = Strip(cfg.library_type)
    /\ cfg' = CfgAt("l49")
    /\ CfgStep
    /\ UNCHANGED <<ZOTERO_LIBRARY_ID, ZOTERO_API_KEY, zot, callvars, req>>

CfgReset ==
    /\ cfg.pc = "l49"
    /\ zot' = ResetClient(zot)
    /\ cfg' = CfgAt("l52")
    /\ CfgStep
    /\ UNCHANGED <<ZOTERO_LIBRARY_ID, ZOTERO_API_KEY, ZOTERO_LIBRARY_TYPE, callvars, req>>

\* The probe builds a client of its own and touches no global; whatever its
\* outcome, the call returns.
CfgProbe ==
    /\ cfg.pc = "l52"
    /\ cfg' = IdleCall
    /\ CfgStep
    /\ UNCHANGED <<globals, callvars, req>>

\* An operation calls get_zotero_client.
ReqCall ==
    /\ req.pc = "idle"
    /\ req' = [pc |-> "l22", ret |-> None]
    /\ ReqStep
    /\ UNCHANGED <<globals, callvars, cfg>>

\* if not ZOTERO_LIBRARY_ID or not ZOTERO_API_KEY: return None
ReqCheckCredentials ==
    /\ req.pc = "l22"
    /\ req' = IF ZOTERO_LIBRARY_ID = <<>> \/ ZOTERO_API_KEY = <<>>
              THEN [pc |-> "use", ret |-> None]
              ELSE ReqAt("l24")
    /\ ReqStep
    /\ UNCHANGED <<globals, callvars, cfg>>

\* if zot is None:
ReqCheckCache ==
    /\ req.pc = "l24"
    /\ req' = IF zot = None THEN ReqAt("l26") ELSE ReqAt("l29")
    /\ ReqStep
    /\ UNCHANGED <<globals, callvars, cfg>>

\* zot = zotero.Zotero(...), or return None when the constructor raises
ReqBuild ==
    /\ req.pc = "l26"
    /\ \E ctor_raises \in BOOLEAN :
           IF ctor_raises
           THEN req' = [pc |-> "use", ret |-> None] /\ UNCHANGED zot
           ELSE /\ zot' = Handle(ZOTERO_LIBRARY_ID, ZOTERO_LIBRARY_TYPE, ZOTERO_API_KEY)
                /\ req' = ReqAt("l29")
    /\ ReqStep
    /\ UNCHANGED <<ZOTERO_LIBRARY_ID, ZOTERO_API_KEY, ZOTERO_LIBRARY_TYPE, callvars, cfg>>

\* return zot
ReqReturn ==
    /\ req.pc = "l29"
    /\ req' = [pc |-> "use", ret |-> zot]
    /\ ReqStep
    /\ UNCHANGED <<globals, callvars, cfg>>

\* The operation goes on with what it was given (its not-configured result,
\* or its calls on the client) and returns.
ReqUse ==
    /\ req.pc = "use"
    /\ req' = IdleReq
    /\ ReqStep
    /\ UNCHANGED <<globals, callvars, cfg>>

RaceNext ==
    \/ CfgCall
    \/ CfgCheckEmpty
    \/ CfgCheckType
    \/ CfgStoreId
    \/ CfgStoreKey
    \/ CfgStoreType
    \/ CfgReset
    \/ CfgProbe
    \/ ReqCall
    \/ ReqCheckCredentials
    \/ ReqCheckCache
    \/ ReqBuild
    \/ ReqReturn
    \/ ReqUse

RaceSpec == Init /\ [][RaceNext]_vars

Stored == Handle(ZOTERO_LIBRARY_ID, ZOTERO_LIBRARY_TYPE, ZOTERO_API_KEY)

\* C10: with a configure_zotero call interleaved statement by statement with
\* an operation's get_zotero_client call, the operation can end up with a
\* client built from a triple that is not the stored one (the witness); with
\* no interleaving, the cached handle, when there is one, and the client an
\* operation holds were built from the triple stored at that time.
C10_SerialCallsSeeStoredCredentials ==
    ~interleaved =>
        /\ (cfg.pc = "idle" /\ zot # None) => zot = Stored
        /\ (req.pc = "use" /\ req.ret # None) => req.ret = Stored

C10_Witness ==
    /\ interleaved
    /\ req.pc = "use"
    /\ req.ret # None
    /\ req.ret # Stored

\* The client in use mixes the new library id with the old API key.
C10_MixedWitness ==
    /\ interleaved
    /\ req.pc = "use"
    /\ cfg.pc = "idle"
    /\ req.ret # None
    /\ req.ret[1] = ZOTERO_LIBRARY_ID
    /\ req.ret[3] # ZOTERO_API_KEY

====
